---- MODULE Spec2Model ----
(***************************************************************************)
(* Billing and validity logic of the school-billing admin application:     *)
(* the record store (schools, billing_info, payment_logs, action_logs),    *)
(* the school-details page with its two hooks (useSchoolData,              *)
(* usePaymentProcessing) and the pure computations they contain.           *)
(*                                                                         *)
(* Conventions.                                                            *)
(*  - A nullable value is a sequence: <<>> is null, <<v>> is the value v.  *)
(*  - Time is counted in hours; a date string 'YYYY-MM-DD' is a day number *)
(*    (UTC), and new Date(dateString) is that day's midnight.              *)
(*  - Money is an integer and every price per student is a multiple of     *)
(*    365, so that price / 365 and every quotient the code forms from it   *)
(*    is computed by IEEE doubles without rounding and integer arithmetic  *)
(*    models the code's arithmetic exactly.                                *)
(***************************************************************************)
EXTENDS Integers, Sequences, FiniteSets, TLC

\* ------------------------------------------------- program constants
DaysInYear == 365
HoursPerDay == 24

\* ------------------------------------------------------------ bounds
\* processPayment calls per behaviour
MaxPayments == 2
\* clock steps per behaviour; one step advances the clock by a day
MaxTicks == 1
ClockStep == HoursPerDay
\* handleDeleteSchool calls in a behaviour
MaxDeletes == 1
\* changes of the id given to one useSchoolData instance
MaxNavigations == 3

\* ------------------------------------------------------ input domains
SchoolIds == {"s1"}
\* schools.student_count: number | null
StudentCounts == {<<>>, <<2>>}
\* quoted_price / pricePerStudent (multiples of 365, see above)
Prices == {365, 730}
\* PaymentFormValues.amount (min 1)
Amounts == {3}
\* PaymentFormValues.excessStudentCount, excessDays (min 0)
ExcessCounts == {2}
ExcessDayCounts == {1}
\* PaymentFormValues.studentCount (min 1)
FormStudentCounts == {2}
\* quoted_price, advance_paid and advance_paid_date of a billing_info row
\* that exists before the first step
InitialPrices == {365}
InitialPaid == {<< <<>>, <<>> >>, << <<0>>, <<0>> >>, << <<3>>, <<0>> >>}

\* --------------------------------------------------------- nullables
Null == <<>>
Some(v) == <<v>>
Val(x) == x[1]
\* JavaScript  x || 0  for a number | null
OrZero(x) == IF x = <<>> THEN 0 ELSE x[1]

Max(a, b) == IF a >= b THEN a ELSE b
\* Math.floor(a / b) and Math.ceil(a / b) for b > 0 (\div rounds down)
Floor(a, b) == a \div b
Ceil(a, b) == -((-a) \div b)

\* ------------------------------------------------------------- dates
\* new Date().toISOString().split('T')[0]: the UTC day of an instant
DateString(now) == now \div HoursPerDay
\* new Date('YYYY-MM-DD').getTime(): midnight UTC of that day
DateOf(day) == day * HoursPerDay
\* d.setDate(d.getDate() + n): n calendar days later, same time of day
AddDays(t, n) == t + n * HoursPerDay

\* ------------------------------------------- pure computations (code)

\* isExcessAdjusted without the test of the special-case flag
isExcessAdjustedIgnoringFlag(data) ==
  data.excessStudentCount # 0 /\ data.excessDays # 0

\* usePaymentProcessing.tsx:66  data.specialCase && data.excessStudentCount
\* && data.excessDays  (a number is truthy iff it is not 0)
isExcessAdjusted(data) ==
  data.specialCase /\ data.excessStudentCount # 0 /\ data.excessDays # 0

\* usePaymentProcessing.tsx:67
pricePerStudentPerDay(data) == data.pricePerStudent \div DaysInYear

\* excessCharge without the factor excessDays
excessChargePerDay(data) ==
  data.excessStudentCount * pricePerStudentPerDay(data)

\* usePaymentProcessing.tsx:70
excessCharge(data) ==
  data.excessStudentCount * pricePerStudentPerDay(data) * data.excessDays

\* effectiveAmount without Math.max(0, ...)
effectiveAmountUnclamped(data) ==
  IF isExcessAdjusted(data) THEN data.amount - excessCharge(data)
  ELSE data.amount

\* usePaymentProcessing.tsx:64-75  the amount credited to advance_paid
effectiveAmount(data) ==
  IF isExcessAdjusted(data) THEN Max(0, data.amount - excessCharge(data))
  ELSE data.amount

\* The three copies of the status classification.
\* useSchoolData.tsx:137-143
hookStatus(days) ==
  IF days > 30 THEN "paid" ELSE IF days > 10 THEN "overdue" ELSE "critical"

\* usePaymentProcessing.tsx:196-202
processStatus(days) ==
  IF days > 30 THEN "paid" ELSE IF days > 10 THEN "overdue" ELSE "critical"

\* dashboardStatus with >= for > at both thresholds
dashboardStatusInclusive(days) ==
  IF days >= 30 THEN "paid" ELSE IF days >= 10 THEN "overdue" ELSE "critical"

\* Dashboard (part_011:397-403)
dashboardStatus(days) ==
  IF days > 30 THEN "paid" ELSE IF days > 10 THEN "overdue" ELSE "critical"

\* fetchDaysOfValidity with Math.round for Math.floor
fetchDaysOfValidityRounded(student_count, quoted_price, advance_paid) ==
  LET totalAnnualFees == OrZero(student_count) * quoted_price
      pricePerDay == totalAnnualFees \div DaysInYear
  IN IF pricePerDay > 0
     THEN (2 * OrZero(advance_paid) + pricePerDay) \div (2 * pricePerDay)
     ELSE 0

\* useSchoolData.tsx:121-125  days of validity bought by advance_paid
fetchDaysOfValidity(student_count, quoted_price, advance_paid) ==
  LET totalAnnualFees == OrZero(student_count) * quoted_price
      pricePerDay == totalAnnualFees \div DaysInYear
  IN IF pricePerDay > 0 THEN Floor(OrZero(advance_paid), pricePerDay) ELSE 0

\* fetchValidity with a negative daysRemaining replaced by 0
fetchValidityClamped(student_count, billing, now) ==
  LET advancePaidDate == DateOf(Val(billing.advance_paid_date))
      validUntilDate ==
        AddDays(advancePaidDate,
                fetchDaysOfValidity(student_count, billing.quoted_price,
                                    billing.advance_paid))
      timeDiff == validUntilDate - now
      days == Max(0, Ceil(timeDiff, HoursPerDay))
  IN [daysRemaining |-> days,
      validUntil |-> Some(validUntilDate),
      paymentStatus |-> hookStatus(days)]

\* useSchoolData.tsx:118-143  the validity the hook derives from a billing
\* row that has an advance_paid_date, at instant now
fetchValidity(student_count, billing, now) ==
  LET advancePaidDate == DateOf(Val(billing.advance_paid_date))
      validUntilDate ==
        AddDays(advancePaidDate,
                fetchDaysOfValidity(student_count, billing.quoted_price,
                                    billing.advance_paid))
      timeDiff == validUntilDate - now
      days == Ceil(timeDiff, HoursPerDay)
  IN [daysRemaining |-> days,
      validUntil |-> Some(validUntilDate),
      paymentStatus |-> hookStatus(days)]

\* processDaysOfValidity with Math.round for Math.floor
processDaysOfValidityRounded(student_count, quoted_price, advance_paid) ==
  LET totalAnnualFees == OrZero(student_count) * quoted_price
      pricePerDay == totalAnnualFees \div DaysInYear
  IN IF pricePerDay > 0
     THEN (2 * OrZero(advance_paid) + pricePerDay) \div (2 * pricePerDay)
     ELSE 0

\* usePaymentProcessing.tsx:175-181
processDaysOfValidity(student_count, quoted_price, advance_paid) ==
  LET totalAnnualFees == OrZero(student_count) * quoted_price
      pricePerDay == totalAnnualFees \div DaysInYear
  IN IF pricePerDay > 0 THEN Floor(OrZero(advance_paid), pricePerDay) ELSE 0

\* usePaymentProcessing.tsx:168-203  the validity processPayment returns,
\* from the billing row it read back (refreshedBilling)
processValidity(student_count, billing, now) ==
  IF billing.advance_paid_date = Null THEN
    [daysRemaining |-> 0, validUntil |-> Null, paymentStatus |-> "critical"]
  ELSE
    LET advancePaidDate == DateOf(Val(billing.advance_paid_date))
        validUntilDate ==
          AddDays(advancePaidDate,
                  processDaysOfValidity(student_count, billing.quoted_price,
                                        billing.advance_paid))
        timeDiff == validUntilDate - now
        days == Ceil(timeDiff, HoursPerDay)
    IN [daysRemaining |-> days,
        validUntil |-> Some(validUntilDate),
        paymentStatus |-> processStatus(days)]

\* useSchoolData.tsx:75-77  the values the hook's state starts from
defaultValidity ==
  [daysRemaining |-> 0, validUntil |-> Null, paymentStatus |-> "critical"]

\* Dashboard (part_011:378-384)
dashboardDaysOfValidity(student_count, quoted_price, advance_paid) ==
  LET totalAnnualFees == OrZero(student_count) * quoted_price
      pricePerDay == totalAnnualFees \div DaysInYear
  IN IF pricePerDay > 0 THEN Floor(advance_paid, pricePerDay) ELSE 0

\* Dashboard (part_011:367-404)  the validity of a school's row on the
\* dashboard, from its billing row; validUntil '' is Null
dashboardValidity(student_count, billing, now) ==
  IF billing.advance_paid_date # Null /\ OrZero(billing.advance_paid) # 0
  THEN
    LET advancePaidDate == DateOf(Val(billing.advance_paid_date))
        validUntilDate ==
          AddDays(advancePaidDate,
                  dashboardDaysOfValidity(student_count, billing.quoted_price,
                                          Val(billing.advance_paid)))
        timeDiff == validUntilDate - now
        days == Ceil(timeDiff, HoursPerDay)
    IN [daysRemaining |-> days,
        validUntil |-> Some(validUntilDate),
        paymentStatus |-> dashboardStatus(days)]
  ELSE defaultValidity

\* PaymentDialog.tsx:84-87  the 'Effective Payment' the dialog previews;
\* specialCase is the hook's state, which the checkbox toggles
dialogEffectiveAmount(form, specialCase) ==
  LET perDay == form.pricePerStudent \div DaysInYear
      charge == form.excessStudentCount * perDay * form.excessDays
  IN Max(0, form.amount - (IF specialCase THEN charge ELSE 0))

\* PaymentDialog.tsx:65-76, 123  the values form.handleSubmit passes to
\* onSubmit: no control of the dialog is bound to the form field
\* specialCase, which keeps its default
dialogSubmitValues(form) ==
  [amount |-> form.amount, studentCount |-> form.studentCount,
   pricePerStudent |-> form.pricePerStudent, specialCase |-> FALSE,
   excessStudentCount |-> form.excessStudentCount,
   excessDays |-> form.excessDays]

\* AddSchool.tsx:85-105  the day of the 'Valid Until' date the form
\* previews (null when it shows none)
addSchoolPreview(form, now) ==
  IF form.studentCount > 0 /\ form.pricePerStudent > 0
  THEN LET totalAmount == form.studentCount * form.pricePerStudent
           validityDays == Floor(form.advancePaid * DaysInYear, totalAmount)
       IN IF form.advancePaid > 0 /\ totalAmount > 0
          THEN Some(DateString(AddDays(now, validityDays)))
          ELSE Null
  ELSE Null

\* AddSchool.tsx:110-121  the schools row onSubmit inserts (name, address,
\* contact_person, email, phone: no student_count)
addSchoolSchoolRow(id, form) == [id |-> id, student_count |-> Null]

\* AddSchool.tsx:126-136  the billing_info row onSubmit inserts
addSchoolBillingRow(id, schoolId, form, now) ==
  [id |-> id, school_id |-> schoolId,
   quoted_price |-> form.pricePerStudent,
   advance_paid |-> Some(form.advancePaid),
   advance_paid_date |-> Some(DateString(now))]

\* part_007:208-212  the remaining balance the school-details page shows
remainingBalance(student_count, billingInfo) ==
  LET pricePerStudent == IF billingInfo = Null THEN 0
                         ELSE Val(billingInfo).quoted_price
      totalAnnualFees == OrZero(student_count) * pricePerStudent
      totalPaid == IF billingInfo = Null THEN 0
                   ELSE OrZero(Val(billingInfo).advance_paid)
  IN Max(0, totalAnnualFees - totalPaid)

\* part_011:364-416  a school as the Dashboard lists it; entry.billing is
\* the billing_info row found for it, if any
dashboardSchool(entry, now) ==
  LET v == IF entry.billing = Null THEN defaultValidity
           ELSE dashboardValidity(entry.student_count, Val(entry.billing), now)
  IN [student_count |-> OrZero(entry.student_count),
      billingInfo |-> entry.billing,
      daysRemaining |-> v.daysRemaining,
      paymentStatus |-> v.paymentStatus]

\* part_011:462-470  Total Outstanding over the listed schools
RECURSIVE totalOutstanding(_)
totalOutstanding(rows) ==
  IF Len(rows) = 0 THEN 0
  ELSE LET school == rows[Len(rows)]
           rest == totalOutstanding(SubSeq(rows, 1, Len(rows) - 1))
       IN IF school.paymentStatus \in {"overdue", "critical"}
             /\ school.billingInfo # Null
          THEN rest + ((Val(school.billingInfo).quoted_price
                          * school.student_count)
                       - OrZero(Val(school.billingInfo).advance_paid))
          ELSE rest

VARIABLES
  clock,          \* the current instant (new Date()), in hours
  schools,        \* table schools: set of rows [id, student_count]
  billing_info,   \* table billing_info: sequence of rows, oldest first
  payment_logs,   \* table payment_logs: sequence of rows, oldest first
  action_logs,    \* table action_logs: sequence of rows, oldest first
  nextId,         \* source of fresh row ids (gen_random_uuid)
  page,           \* "closed" | "open": whether SchoolDetails is mounted
  hook,           \* state of useSchoolData(id) of the mounted page
  localState,     \* SchoolDetails' localState
  isSubmittingPayment,
  nCalls,         \* processPayment calls made so far
  nTicks,         \* clock steps made so far
  call,           \* record of the most recent processPayment call
  arg,            \* inputs of the pure computations (calculator runs)
  res,            \* outputs of the pure computations (calculator runs)
  nDeletes,       \* handleDeleteSchool calls made so far
  del,            \* record of the most recent handleDeleteSchool call
  tabs,           \* two further browser tabs on the same school, each with
                  \* its own hooks (concurrent payments)
  fetches,        \* the id given to useSchoolData and its fetches in flight
  pending         \* the processPayment call of the page that is in progress

vars == <<clock, schools, billing_info, payment_logs, action_logs, nextId,
          page, hook, localState, isSubmittingPayment, nCalls, nTicks,
          call, arg, res, nDeletes, del, tabs, fetches, pending>>

storeVars == <<schools, billing_info, payment_logs, action_logs, nextId>>
pageVars == <<page, hook, localState, isSubmittingPayment>>
calcVars == <<arg, res>>
delVars == <<nDeletes, del>>
asyncVars == <<fetches, pending>>

\* ------------------------------------------------------ record store

\* PaymentDialog.tsx:29-37  the values paymentFormSchema accepts
PaymentFormValues ==
  [amount : Amounts, studentCount : FormStudentCounts,
   pricePerStudent : Prices, specialCase : BOOLEAN,
   excessStudentCount : ExcessCounts, excessDays : ExcessDayCounts]

\* The store calls of processPayment whose failure the code tests:
\* createError, updateError, paymentLogError, refreshError.
PaymentFaults == {"none", "create", "update", "log", "refresh"}

\* The store call of fetchSchoolData whose failure the code tests beyond
\* a missing school: billingError with a code other than PGRST116.
FetchFaults == {"none", "billing"}

BillingOfSchool(table, id) ==
  LET Test(row) == row.school_id = id IN SelectSeq(table, Test)

BillingById(table, id) ==
  LET Test(row) == row.id = id IN SelectSeq(table, Test)

LogsOfSchool(table, id) ==
  LET Test(row) == row.school_id = id IN SelectSeq(table, Test)

SchoolById(id) == {row \in schools : row.id = id}

\* supabase .single(): the row when exactly one row matches, otherwise
\* no data (and the error PGRST116)
Single(rows) == IF Len(rows) = 1 THEN Some(rows[1]) ELSE Null

\* ------------------------------------------------------ useSchoolData

\* useSchoolData.tsx:70-77  the state of a freshly mounted hook
hookInitial ==
  [school |-> Null, billingInfo |-> Null, payments |-> <<>>,
   loading |-> TRUE, error |-> Null,
   daysRemaining |-> defaultValidity.daysRemaining,
   paymentStatus |-> defaultValidity.paymentStatus,
   validUntil |-> defaultValidity.validUntil]

\* useSchoolData.tsx:156-163  the payment shown when no payment log exists
\* (Payment.date is kept as a day; its time of day is not modelled)
fallbackPayments(schoolData, billingData, now) ==
  << [id |-> 0,
      amount |-> OrZero(billingData.advance_paid),
      date |-> IF billingData.advance_paid_date # Null
               THEN Val(billingData.advance_paid_date) ELSE DateString(now),
      studentCount |-> OrZero(schoolData.student_count),
      pricePerStudent |-> billingData.quoted_price] >>

\* useSchoolData.tsx:168-176
mappedPayments(logs, schoolData, billingData) ==
  [i \in 1..Len(logs) |->
     [id |-> logs[i].id,
      amount |-> logs[i].amount,
      date |-> logs[i].payment_date,
      studentCount |-> IF logs[i].student_count # 0 THEN logs[i].student_count
                       ELSE OrZero(schoolData.student_count),
      pricePerStudent |-> IF logs[i].price_per_student # 0
                          THEN logs[i].price_per_student
                          ELSE billingData.quoted_price,
      specialCase |-> logs[i].is_special_case]]

\* useSchoolData.tsx:80-207  fetchSchoolData: the hook state after the
\* fetch for id has run to its end, from the state prev, at instant now
fetchSchoolData(prev, id, now, fault) ==
  LET found == SchoolById(id) IN
  IF found = {} THEN
    [prev EXCEPT !.error = Some("school"), !.loading = FALSE]
  ELSE
    LET schoolData == CHOOSE row \in found : TRUE
        h1 == [prev EXCEPT !.error = Null, !.school = Some(schoolData)]
        billingOpt == Single(BillingOfSchool(billing_info, id))
    IN
    IF fault = "billing" THEN
      [h1 EXCEPT !.error = Some("billing"), !.loading = FALSE]
    ELSE IF billingOpt = Null THEN
      [h1 EXCEPT !.billingInfo = Null, !.payments = <<>>, !.loading = FALSE]
    ELSE
      LET billingData == Val(billingOpt)
          dated == billingData.advance_paid_date # Null
          v == fetchValidity(schoolData.student_count, billingData, now)
          logs == LogsOfSchool(payment_logs, id)
      IN [h1 EXCEPT
            !.billingInfo = Some(billingData),
            !.daysRemaining = IF dated THEN v.daysRemaining ELSE @,
            !.validUntil = IF dated THEN v.validUntil ELSE @,
            !.paymentStatus = IF dated THEN v.paymentStatus ELSE @,
            !.payments = IF Len(logs) = 0
                         THEN fallbackPayments(schoolData, billingData, now)
                         ELSE mappedPayments(logs, schoolData, billingData),
            !.loading = FALSE]

\* ------------------------------------------------------ SchoolDetails

\* part_007:76-82
localStateInitial ==
  [payments |-> <<>>, billingInfo |-> Null, daysRemaining |-> 0,
   paymentStatus |-> "critical", validUntil |-> Null]

\* useSchoolData.tsx:69, 79-81  no id given yet, no fetch in flight
fetchesInitial == [id |-> Null, started |-> 0, inflight |-> {}]

\* Two further tabs, none of them open: each tab holds the state of its
\* own useSchoolData hook and the position of its processPayment call.
Tabs == {1, 2}

tabsInitial ==
  [t \in Tabs |-> [pc |-> "closed", hook |-> hookInitial, data |-> Null,
                   billingId |-> Null, logId |-> Null, seen |-> 0,
                   order |-> 0, result |-> Null]]

\* part_007:85-93  the effect that copies the hook's values to localState
syncLocalState(h) ==
  [payments |-> h.payments, billingInfo |-> h.billingInfo,
   daysRemaining |-> h.daysRemaining, paymentStatus |-> h.paymentStatus,
   validUntil |-> h.validUntil]

\* part_007:196-206  the page renders its content (and the payment
\* dialog) only without error, when loaded, with a school
PageShowsSchool ==
  /\ page = "open"
  /\ hook.error = Null
  /\ ~hook.loading
  /\ hook.school # Null

\* ------------------------------------------------- usePaymentProcessing

\* newBillingRow crediting the raw amount
newBillingRowRawAmount(id, school, data, now) ==
  [id |-> id, school_id |-> school.id,
   quoted_price |-> data.pricePerStudent,
   advance_paid |-> Some(data.amount),
   advance_paid_date |-> Some(DateString(now))]

\* usePaymentProcessing.tsx:86-96  the row processPayment inserts when it
\* was given no BillingInfo
newBillingRow(id, school, data, now) ==
  [id |-> id, school_id |-> school.id,
   quoted_price |-> data.pricePerStudent,
   advance_paid |-> Some(effectiveAmount(data)),
   advance_paid_date |-> Some(DateString(now))]

\* updatedBillingRow crediting the raw amount
updatedBillingRowRawAmount(row, billingInfo, data, now) ==
  [row EXCEPT
     !.quoted_price = IF data.specialCase THEN data.pricePerStudent
                      ELSE billingInfo.quoted_price,
     !.advance_paid = Some(OrZero(billingInfo.advance_paid) + data.amount),
     !.advance_paid_date = Some(DateString(now))]

\* updatedBillingRow adding to the stored row's advance_paid (an update
\* relative to the stored value)
updatedBillingRowFromStored(row, billingInfo, data, now) ==
  [row EXCEPT
     !.quoted_price = IF data.specialCase THEN data.pricePerStudent
                      ELSE billingInfo.quoted_price,
     !.advance_paid = Some(OrZero(row.advance_paid) + effectiveAmount(data)),
     !.advance_paid_date = Some(DateString(now))]

\* usePaymentProcessing.tsx:105-112  the row as processPayment updates it:
\* the new values are computed from billingInfo, the BillingInfo the hook
\* was given, never from the stored row
updatedBillingRow(row, billingInfo, data, now) ==
  [row EXCEPT
     !.quoted_price = IF data.specialCase THEN data.pricePerStudent
                      ELSE billingInfo.quoted_price,
     !.advance_paid = Some(OrZero(billingInfo.advance_paid)
                           + effectiveAmount(data)),
     !.advance_paid_date = Some(DateString(now))]

\* usePaymentProcessing.tsx:122-138  the payment_logs row of a payment
newPaymentLog(id, school, billingId, data, now) ==
  [id |-> id, school_id |-> school.id, billing_id |-> billingId,
   amount |-> data.amount,
   payment_date |-> DateString(now),
   student_count |-> data.studentCount,
   price_per_student |-> data.pricePerStudent,
   is_special_case |-> data.specialCase,
   excess_student_count |-> data.excessStudentCount,
   excess_days |-> data.excessDays]

\* usePaymentProcessing.tsx:145-152  (Payment.date kept as a day)
newPayment(logId, data, now) ==
  [id |-> logId, amount |-> data.amount, date |-> DateString(now),
   studentCount |-> data.studentCount,
   pricePerStudent |-> data.pricePerStudent]

\* usePaymentProcessing.tsx:206-214
paymentActionLog(id, school, logId) ==
  [id |-> id, action_type |-> "payment_added",
   school_id |-> Some(school.id), related_record_id |-> Some(logId)]

\* usePaymentProcessing.tsx:83-117  table billing_info after the insert
\* (no BillingInfo given; the new row gets id) or the update of the row
\* whose id is billingInfo.id
writeBilling(table, id, school, billingInfoArg, data, now) ==
  IF billingInfoArg = Null
  THEN Append(table, newBillingRow(id, school, data, now))
  ELSE [i \in 1..Len(table) |->
          IF table[i].id = Val(billingInfoArg).id
          THEN updatedBillingRow(table[i], Val(billingInfoArg), data, now)
          ELSE table[i]]

\* insertPaymentLog replacing the school's latest row
upsertPaymentLog(table, row) ==
  IF Len(table) > 0 /\ table[Len(table)].school_id = row.school_id
  THEN [table EXCEPT ![Len(table)] = row]
  ELSE Append(table, row)

\* usePaymentProcessing.tsx:122-138  payment_logs after .insert(row)
insertPaymentLog(table, row) == Append(table, row)

\* usePaymentProcessing.tsx:58-240  processPayment(data), called with the
\* hook's arguments school, billingInfoArg and payments, run to its end at
\* instant now; fault names the store call that fails, if one does.
\* The result: the tables as the call leaves them and what it returns.
processPayment(school, billingInfoArg, payments, data, now, fault) ==
  LET \* lines 83-117: create or update the billing row
      creates == billingInfoArg = Null
      threwBilling == IF creates THEN fault = "create" ELSE fault = "update"
      billingId == IF creates THEN nextId ELSE Val(billingInfoArg).id
      id1 == IF creates /\ ~threwBilling THEN nextId + 1 ELSE nextId
      billing1 ==
        IF threwBilling THEN billing_info
        ELSE writeBilling(billing_info, nextId, school, billingInfoArg,
                          data, now)
      \* lines 119-142: insert the payment log; the insert fails when the
      \* store call fails or billing_id names no billing_info row (:266)
      threwLog ==
        \/ threwBilling
        \/ fault = "log"
        \/ Len(BillingById(billing1, billingId)) = 0
      logId == id1
      id2 == IF threwLog THEN id1 ELSE id1 + 1
      logs1 ==
        IF threwLog THEN payment_logs
        ELSE insertPaymentLog(payment_logs,
                              newPaymentLog(logId, school, billingId, data,
                                            now))
      \* lines 161-165: read the billing row back
      refreshed == IF threwLog \/ fault = "refresh" THEN Null
                   ELSE Single(BillingById(billing1, billingId))
      returns == refreshed # Null
      \* lines 205-214: the action log, inserted only on this path
      logsAction == returns
      actions1 ==
        IF logsAction
        THEN Append(action_logs, paymentActionLog(id2, school, logId))
        ELSE action_logs
      id3 == IF logsAction THEN id2 + 1 ELSE id2
      v == processValidity(school.student_count, Val(refreshed), now)
  IN [billing_info |-> billing1,
      written |-> IF threwBilling THEN Null
                  ELSE Single(BillingById(billing1, billingId)),
      payment_logs |-> logs1,
      action_logs |-> actions1,
      nextId |-> id3,
      log |-> IF threwLog THEN Null
              ELSE Some(newPaymentLog(logId, school, billingId, data, now)),
      result |->
        IF returns
        THEN Some([billingInfo |-> refreshed,
                   payments |-> Append(payments, newPayment(logId, data, now)),
                   daysRemaining |-> v.daysRemaining,
                   paymentStatus |-> v.paymentStatus,
                   validUntil |-> v.validUntil])
        ELSE Null]

\* part_007:109-117  localState after handleSubmitPayment got result
localStateOfResult(result) ==
  [billingInfo |-> result.billingInfo,
   payments |-> result.payments,
   daysRemaining |-> result.daysRemaining,
   paymentStatus |-> result.paymentStatus,
   validUntil |-> result.validUntil]

\* ------------------------------------------------- handleDeleteSchool

\* part_007:144-149  the action_logs row handleDeleteSchool inserts first
schoolDeletedActionLog(id, schoolId) ==
  [id |-> id, action_type |-> "school_deleted",
   school_id |-> Some(schoolId), related_record_id |-> Null]

\* part_007:157-160  delete from payment_logs where school_id = id
deletePaymentLogsOfSchool(table, id) ==
  LET Test(row) == row.school_id # id IN SelectSeq(table, Test)

\* part_007:163-166  delete from billing_info where school_id = id
deleteBillingOfSchool(table, id) ==
  LET Test(row) == row.school_id # id IN SelectSeq(table, Test)

\* schoolDeleteBlocked with the NOT NULL of payment_logs.school_id dropped
schoolDeleteNeverBlocked(logs, id) == FALSE

\* usePaymentProcessing.tsx:265  payment_logs.school_id references schools
\* ON DELETE SET NULL and is NOT NULL: deleting a school that still has
\* payment_logs rows fails
schoolDeleteBlocked(logs, id) == Len(LogsOfSchool(logs, id)) > 0

\* usePaymentProcessing.tsx:257  action_logs.school_id references schools
\* ON DELETE SET NULL: the rows of a deleted school lose their school_id
actionLogsOnSchoolDelete(table, id) ==
  [i \in 1..Len(table) |->
     IF table[i].school_id = Some(id)
     THEN [table[i] EXCEPT !.school_id = Null] ELSE table[i]]

\* The rule of billing_info_school_id_fkey (App.tsx:157-164) is set by a
\* migration outside the sources; the specification states that deleting a
\* school cascades to its billing records.
billingOnSchoolDelete(table, id) == deleteBillingOfSchool(table, id)

\* The store calls of handleDeleteSchool that may fail: the action_logs
\* insert (its failure is ignored) and the schools delete (its error is
\* thrown).
DeleteFaults == {"none", "log", "school"}

\* part_007:136-194  handleDeleteSchool, called with the hook's school and
\* billingInfo, run to its end; fault names the store call that fails.
\* The result: the tables as the call leaves them.
handleDeleteSchool(school, billingInfoArg, fault) ==
  LET id == school.id
      logged == fault # "log"
      actions1 == IF logged
                  THEN Append(action_logs, schoolDeletedActionLog(nextId, id))
                  ELSE action_logs
      related == billingInfoArg # Null
      logs1 == IF related THEN deletePaymentLogsOfSchool(payment_logs, id)
               ELSE payment_logs
      billing1 == IF related THEN deleteBillingOfSchool(billing_info, id)
                  ELSE billing_info
      failed == fault = "school" \/ schoolDeleteBlocked(logs1, id)
  IN [schools |-> IF failed THEN schools ELSE schools \ SchoolById(id),
      billing_info |-> IF failed THEN billing1
                       ELSE billingOnSchoolDelete(billing1, id),
      payment_logs |-> logs1,
      action_logs |-> IF failed THEN actions1
                      ELSE actionLogsOnSchoolDelete(actions1, id),
      nextId |-> IF logged THEN nextId + 1 ELSE nextId,
      logged |-> logged,
      deleted |-> ~failed]

\* ------------------------------------------------------------ actions

\* A store the application can be in when the behaviour starts: one school
\* (AddSchool.tsx:110-121) with no billing_info row (its insert failed,
\* AddSchool.tsx:126-136) or with one, and no payment yet.
InitialBillingRows ==
  {<<>>} \cup
  { << [id |-> 1, school_id |-> "s1", quoted_price |-> q,
        advance_paid |-> p[1], advance_paid_date |-> p[2]] >> :
      q \in InitialPrices, p \in InitialPaid }

StoreInit ==
  /\ clock = 0
  /\ \E sc \in StudentCounts : schools = {[id |-> "s1", student_count |-> sc]}
  /\ billing_info \in InitialBillingRows
  /\ payment_logs = <<>>
  /\ action_logs = <<>>
  /\ nextId = 2
  /\ page = "closed"
  /\ hook = hookInitial
  /\ localState = localStateInitial
  /\ isSubmittingPayment = FALSE
  /\ nCalls = 0
  /\ nTicks = 0
  /\ call = Null
  /\ nDeletes = 0
  /\ del = Null
  /\ fetches = fetchesInitial
  /\ pending = Null

Init ==
  /\ tabs = tabsInitial
  /\ StoreInit
  /\ arg = Null
  /\ res = Null

\* Time passes.
Tick ==
  /\ nTicks < MaxTicks
  /\ clock' = clock + ClockStep
  /\ nTicks' = nTicks + 1
  /\ UNCHANGED <<storeVars, pageVars, nCalls, call, calcVars, delVars, tabs,
                 asyncVars>>

\* part_007:42-93  the school-details page of school id is opened: the
\* hooks mount, fetchSchoolData runs and the effect copies its values
OpenPage(id, fault) ==
  /\ page = "closed"
  /\ page' = "open"
  /\ hook' = fetchSchoolData(hookInitial, id, clock, fault)
  /\ localState' = syncLocalState(hook')
  /\ UNCHANGED <<clock, storeVars, isSubmittingPayment, nCalls, nTicks,
                 call, calcVars, delVars, tabs,
                 asyncVars>>

\* The page is left (navigate('/dashboard')): its hooks unmount.
ClosePage ==
  /\ page = "open"
  /\ page' = "closed"
  /\ hook' = hookInitial
  /\ localState' = localStateInitial
  /\ UNCHANGED <<clock, storeVars, isSubmittingPayment, nCalls, nTicks,
                 call, calcVars, delVars, tabs,
                 asyncVars>>

\* part_007:103-134  handleSubmitPayment(data): processPayment with the
\* hook's school, billingInfo and payments, then localState := result
SubmitPayment(data, fault) ==
  /\ PageShowsSchool
  /\ nCalls < MaxPayments
  /\ LET school == Val(hook.school)
         out == processPayment(school, hook.billingInfo, hook.payments,
                               data, clock, fault)
     IN /\ billing_info' = out.billing_info
        /\ payment_logs' = out.payment_logs
        /\ action_logs' = out.action_logs
        /\ nextId' = out.nextId
        /\ localState' = IF out.result # Null
                         THEN localStateOfResult(Val(out.result))
                         ELSE localState
        /\ call' = Some([data |-> data,
                         effectiveAmount |-> effectiveAmount(data),
                         billingInfo |-> hook.billingInfo,
                         shown |-> localState.payments,
                         before |-> BillingOfSchool(billing_info, school.id),
                         after |-> BillingOfSchool(out.billing_info, school.id),
                         written |-> out.written,
                         log |-> out.log,
                         result |-> out.result,
                         now |-> clock])
  /\ isSubmittingPayment' = FALSE
  /\ nCalls' = nCalls + 1
  /\ UNCHANGED <<clock, schools, page, hook, nTicks, calcVars, delVars, tabs,
                 asyncVars>>

\* part_007:136-194  handleDeleteSchool from the open page; after a
\* successful deletion the page navigates to the dashboard
DeleteSchool(fault) ==
  /\ PageShowsSchool
  /\ nDeletes < MaxDeletes
  /\ LET school == Val(hook.school)
         out == handleDeleteSchool(school, hook.billingInfo, fault)
     IN /\ schools' = out.schools
        /\ billing_info' = out.billing_info
        /\ payment_logs' = out.payment_logs
        /\ action_logs' = out.action_logs
        /\ nextId' = out.nextId
        /\ page' = IF out.deleted THEN "closed" ELSE page
        /\ hook' = IF out.deleted THEN hookInitial ELSE hook
        /\ localState' = IF out.deleted THEN localStateInitial ELSE localState
        /\ del' = Some([id |-> school.id,
                        billingInfo |-> hook.billingInfo,
                        logged |-> out.logged,
                        logId |-> IF out.logged THEN Some(nextId) ELSE Null,
                        hadLogs |-> Len(LogsOfSchool(payment_logs,
                                                     school.id)) > 0,
                        sessionPaid |-> localState.payments # hook.payments,
                        deleted |-> out.deleted])
  /\ nDeletes' = nDeletes + 1
  /\ UNCHANGED <<clock, isSubmittingPayment, nCalls, nTicks, call, calcVars,
                 tabs,
                 asyncVars>>

\* Every store call succeeds.
Next ==
  \/ Tick
  \/ \E id \in SchoolIds : OpenPage(id, "none")
  \/ ClosePage
  \/ \E data \in PaymentFormValues : SubmitPayment(data, "none")
  \/ DeleteSchool("none")

Spec == Init /\ [][Next]_vars

\* Store calls may fail.
NextFaults ==
  \/ Next
  \/ \E id \in SchoolIds, fault \in FetchFaults \ {"none"} :
       OpenPage(id, fault)
  \/ \E data \in PaymentFormValues, fault \in PaymentFaults \ {"none"} :
       SubmitPayment(data, fault)
  \/ \E fault \in DeleteFaults \ {"none"} : DeleteSchool(fault)

SpecFaults == Init /\ [][NextFaults]_vars

\* ------------------------------------------- one hook, several schools
\* The route /school/:id keeps the SchoolDetails instance, and with it the
\* useSchoolData instance, when only the id changes (history navigation
\* from one school's page to another's): the effect of useSchoolData.tsx:
\* 79-210 runs again, on the state the previous fetch left.

HookSchoolIds == {"s1", "s2"}

HookBillingRows ==
  { << [id |-> 1, school_id |-> "s1", quoted_price |-> q,
        advance_paid |-> p[1], advance_paid_date |-> p[2]] >> :
      q \in InitialPrices, p \in InitialPaid }

HookOtherRows ==
  {<<>>} \cup
  { << [id |-> 2, school_id |-> "s2", quoted_price |-> q,
        advance_paid |-> p[1], advance_paid_date |-> p[2]] >> :
      q \in InitialPrices, p \in InitialPaid }

HookInit ==
  /\ clock = 0
  /\ \E sc1 \in StudentCounts, sc2 \in StudentCounts :
       schools = {[id |-> "s1", student_count |-> sc1],
                  [id |-> "s2", student_count |-> sc2]}
  /\ \E r1 \in HookBillingRows, r2 \in HookOtherRows : billing_info = r1 \o r2
  /\ payment_logs = <<>>
  /\ action_logs = <<>>
  /\ nextId = 3
  /\ page = "open"
  /\ hook = hookInitial
  /\ localState = localStateInitial
  /\ isSubmittingPayment = FALSE
  /\ nCalls = 0
  /\ nTicks = 0
  /\ call = Null
  /\ nDeletes = 0
  /\ del = Null
  /\ fetches = fetchesInitial
  /\ pending = Null
  /\ tabs = tabsInitial
  /\ arg = Null
  /\ res = Null

\* useSchoolData.tsx:79-210  the id given to the hook becomes id: the
\* effect runs fetchSchoolData for it
NavigateToSchool(id) ==
  /\ page = "open"
  /\ IF hook.school = Null THEN TRUE ELSE Val(hook.school).id # id
  /\ hook' = fetchSchoolData(hook, id, clock, "none")
  /\ localState' = syncLocalState(hook')
  /\ UNCHANGED <<clock, storeVars, page, isSubmittingPayment, nCalls, nTicks,
                 call, calcVars, delVars, tabs,
                 asyncVars>>

HookNext ==
  \/ Tick
  \/ \E id \in HookSchoolIds : NavigateToSchool(id)

SpecHook == HookInit /\ [][HookNext]_vars

\* ------------------------------------------------- concurrent payments
\* Two tabs show the same school; each has its own hooks, and each
\* processPayment call runs from one awaited store call to the next.

TabsWritten == Cardinality({t \in Tabs : tabs[t].order > 0})

\* part_007:52-61  the tab's page mounts and its hook fetches the school
TabOpen(t) ==
  /\ tabs[t].pc = "closed"
  /\ LET h == fetchSchoolData(hookInitial, "s1", clock, "none")
     IN tabs' = [tabs EXCEPT ![t].hook = h,
                             ![t].seen = TabsWritten,
                             ![t].pc = IF h.error = Null /\ h.school # Null
                                       THEN "loaded" ELSE "failed"]
  /\ UNCHANGED <<clock, storeVars, pageVars, nCalls, nTicks, call, calcVars,
                 delVars,
                 asyncVars>>

\* usePaymentProcessing.tsx:58-117  processPayment(data) up to the insert
\* or update of the billing row
TabWriteBilling(t, data) ==
  /\ tabs[t].pc = "loaded"
  /\ LET h == tabs[t].hook
         creates == h.billingInfo = Null
     IN /\ billing_info' = writeBilling(billing_info, nextId, Val(h.school),
                                        h.billingInfo, data, clock)
        /\ nextId' = IF creates THEN nextId + 1 ELSE nextId
        /\ tabs' = [tabs EXCEPT
                      ![t].pc = "wrote",
                      ![t].data = Some(data),
                      ![t].billingId = Some(IF creates THEN nextId
                                            ELSE Val(h.billingInfo).id),
                      ![t].order = TabsWritten + 1]
  /\ UNCHANGED <<clock, schools, payment_logs, action_logs, pageVars, nCalls,
                 nTicks, call, calcVars, delVars,
                 asyncVars>>

\* usePaymentProcessing.tsx:119-142  the payment log is inserted
TabInsertLog(t) ==
  /\ tabs[t].pc = "wrote"
  /\ LET h == tabs[t].hook
         billingId == Val(tabs[t].billingId)
         threw == Len(BillingById(billing_info, billingId)) = 0
     IN IF threw
        THEN /\ tabs' = [tabs EXCEPT ![t].pc = "done"]
             /\ UNCHANGED <<payment_logs, nextId,
                 asyncVars>>
        ELSE /\ payment_logs' =
                  insertPaymentLog(payment_logs,
                                   newPaymentLog(nextId, Val(h.school),
                                                 billingId,
                                                 Val(tabs[t].data), clock))
             /\ nextId' = nextId + 1
             /\ tabs' = [tabs EXCEPT ![t].pc = "logged",
                                     ![t].logId = Some(nextId)]
  /\ UNCHANGED <<clock, schools, billing_info, action_logs, pageVars, nCalls,
                 nTicks, call, calcVars, delVars,
                 asyncVars>>

\* usePaymentProcessing.tsx:161-228  the billing row is read back, the
\* validity computed, the action log inserted and the result returned
TabFinish(t) ==
  /\ tabs[t].pc = "logged"
  /\ LET h == tabs[t].hook
         school == Val(h.school)
         data == Val(tabs[t].data)
         logId == Val(tabs[t].logId)
         refreshed == Single(BillingById(billing_info, Val(tabs[t].billingId)))
         v == processValidity(school.student_count, Val(refreshed), clock)
     IN IF refreshed = Null
        THEN /\ tabs' = [tabs EXCEPT ![t].pc = "done"]
             /\ UNCHANGED <<action_logs, nextId,
                 asyncVars>>
        ELSE /\ action_logs' =
                  Append(action_logs, paymentActionLog(nextId, school, logId))
             /\ nextId' = nextId + 1
             /\ tabs' = [tabs EXCEPT
                           ![t].pc = "done",
                           ![t].result =
                             Some([billingInfo |-> refreshed,
                                   payments |->
                                     Append(h.payments,
                                            newPayment(logId, data, clock)),
                                   daysRemaining |-> v.daysRemaining,
                                   paymentStatus |-> v.paymentStatus,
                                   validUntil |-> v.validUntil])]
  /\ UNCHANGED <<clock, schools, billing_info, payment_logs, pageVars, nCalls,
                 nTicks, call, calcVars, delVars,
                 asyncVars>>

RaceNext ==
  \/ \E t \in Tabs : TabOpen(t)
  \/ \E t \in Tabs, data \in PaymentFormValues : TabWriteBilling(t, data)
  \/ \E t \in Tabs : TabInsertLog(t)
  \/ \E t \in Tabs : TabFinish(t)

SpecRace == Init /\ [][RaceNext]_vars

\* ------------------------------------------------- fetches in flight
\* The id given to one useSchoolData instance changes while earlier
\* fetches are still in flight: the effect (useSchoolData.tsx:79-210) has
\* no cleanup and fetchSchoolData does not compare the id it was started
\* for with the current one, so every response is applied when it arrives.
\* The state changes of one fetch are applied together, at its arrival.

\* useSchoolData.tsx:79-85, 209-210  the id becomes id: the effect starts
\* fetchSchoolData, which sets loading and clears error before it awaits
RequestSchool(id) ==
  /\ page = "open"
  /\ fetches.started < MaxNavigations
  /\ fetches.id # Some(id)
  /\ fetches' = [id |-> Some(id),
                 started |-> fetches.started + 1,
                 inflight |-> fetches.inflight
                                \cup {[id |-> id, n |-> fetches.started + 1]}]
  /\ hook' = [hook EXCEPT !.loading = TRUE, !.error = Null]
  /\ UNCHANGED <<clock, storeVars, page, localState, isSubmittingPayment,
                 nCalls, nTicks, call, calcVars, delVars, tabs, pending>>

\* useSchoolData.tsx:87-207  the responses of the fetch f arrive and its
\* state changes are applied
DeliverFetch(f) ==
  /\ f \in fetches.inflight
  /\ fetches' = [fetches EXCEPT !.inflight = @ \ {f}]
  /\ hook' = fetchSchoolData(hook, f.id, clock, "none")
  /\ localState' = syncLocalState(hook')
  /\ UNCHANGED <<clock, storeVars, page, isSubmittingPayment, nCalls, nTicks,
                 call, calcVars, delVars, tabs, pending>>

FetchNext ==
  \/ \E id \in HookSchoolIds : RequestSchool(id)
  \/ \E f \in fetches.inflight : DeliverFetch(f)

SpecFetch == HookInit /\ [][FetchNext]_vars

\* --------------------------------------------- a payment in progress
\* processPayment from its first statement to its last: the page's call
\* is in progress from setIsSubmittingPayment(true) until the finally
\* block has run.

\* Values the payment dialog can submit (its specialCase is never set)
DialogFormValues == {data \in PaymentFormValues : ~data.specialCase}

\* submittingAfterCall with the reset on the path that returns a result
\* only
submittingAfterResultOnly(result) == result = Null

\* usePaymentProcessing.tsx:237-239  isSubmittingPayment after the finally
\* block, whatever the call returns
submittingAfterCall(result) == FALSE

\* usePaymentProcessing.tsx:58-61, PaymentDialog.tsx:288-290  the form is
\* submitted (its button is disabled while isSubmittingPayment) and
\* processPayment runs up to its first await
BeginPayment(data) ==
  /\ PageShowsSchool
  /\ ~isSubmittingPayment
  /\ pending = Null
  /\ nCalls < MaxPayments
  /\ isSubmittingPayment' = TRUE
  /\ pending' = Some(data)
  /\ nCalls' = nCalls + 1
  /\ UNCHANGED <<clock, storeVars, page, hook, localState, nTicks, call,
                 calcVars, delVars, tabs, fetches>>

\* usePaymentProcessing.tsx:62-240, part_007:107-117  the store calls of
\* the call in progress settle (fault names the one that fails, if any),
\* the call returns and handleSubmitPayment takes its result
SettlePayment(fault) ==
  /\ pending # Null
  /\ page = "open"
  /\ LET school == Val(hook.school)
         data == Val(pending)
         out == processPayment(school, hook.billingInfo, hook.payments,
                               data, clock, fault)
     IN /\ billing_info' = out.billing_info
        /\ payment_logs' = out.payment_logs
        /\ action_logs' = out.action_logs
        /\ nextId' = out.nextId
        /\ localState' = IF out.result # Null
                         THEN localStateOfResult(Val(out.result))
                         ELSE localState
        /\ isSubmittingPayment' = submittingAfterCall(out.result)
        /\ call' = Some([data |-> data,
                         effectiveAmount |-> effectiveAmount(data),
                         billingInfo |-> hook.billingInfo,
                         shown |-> localState.payments,
                         before |-> BillingOfSchool(billing_info, school.id),
                         after |-> BillingOfSchool(out.billing_info, school.id),
                         written |-> out.written,
                         log |-> out.log,
                         result |-> out.result,
                         now |-> clock])
  /\ pending' = Null
  /\ UNCHANGED <<clock, schools, page, hook, nCalls, nTicks, calcVars,
                 delVars, tabs, fetches>>

SubmitNext ==
  \/ \E id \in SchoolIds : OpenPage(id, "none")
  \/ \E data \in DialogFormValues : BeginPayment(data)
  \/ \E fault \in PaymentFaults : SettlePayment(fault)

\* Every store call settles: the call in progress comes to its end.
SubmitFairness == WF_vars(\E fault \in PaymentFaults : SettlePayment(fault))

SpecSubmit == Init /\ [][SubmitNext]_vars /\ SubmitFairness

\* ----------------------------------------------------- calculator runs
\* The pure computations applied to inputs drawn from wider sets than the
\* page behaviours use.

CalcFormValues ==
  [amount : {1, 3, 40, 10000}, studentCount : {1},
   pricePerStudent : {365, 730}, specialCase : BOOLEAN,
   excessStudentCount : {0, 2, 5}, excessDays : {0, 1, 10}]

CalcStudentCounts == {<<>>, <<0>>, <<2>>, <<100>>}
CalcPrices == {0, 365, 730}
CalcAdvances == {<<>>, <<0>>, <<3>>, <<365>>, <<3650>>}
CalcDates == {<<>>, <<0>>, <<1>>}
CalcInstants == {0, 12, 24, 30, 72}
CalcDays == -5 .. 45

\* Stored values below zero, which no column of the store excludes
CalcSignedStudentCounts == {<<-2>>, <<2>>}
CalcSignedPrices == {-365, 365}
CalcSignedAdvances == {<<-3>>, <<3>>}

\* What the payment dialog holds when it is submitted
CalcDialogForms ==
  [amount : {3, 40}, studentCount : {2}, pricePerStudent : {365, 730},
   excessStudentCount : {0, 2}, excessDays : {0, 10}, ticked : BOOLEAN]

\* What the AddSchool form holds when it is submitted (schema at
\* AddSchool.tsx:51-53); the quotients 365 * advancePaid / (studentCount *
\* pricePerStudent) of these values are computed by doubles as by integers
CalcAddSchoolForms ==
  [studentCount : {2, 100}, pricePerStudent : {365},
   advancePaid : {0, 3, 3650}]

\* The schools of a Dashboard, each with the billing row found for it
CalcDashboardEntries ==
  [student_count : {<<>>, <<2>>}, billing : {<<>>}]
  \cup { [student_count |-> sc,
          billing |-> << [id |-> 1, school_id |-> "s1", quoted_price |-> 365,
                          advance_paid |-> p,
                          advance_paid_date |-> <<0>>] >>] :
           sc \in {<<>>, <<2>>}, p \in {<<>>, <<3>>, <<3650>>} }

MaxDashboardSchools == 2

CalcDashboards ==
  UNION { [1..n -> CalcDashboardEntries] : n \in 1..MaxDashboardSchools }

CalcArgs ==
  [kind : {"payment"}, data : CalcFormValues]
  \cup [kind : {"validity"}, student_count : CalcStudentCounts,
        quoted_price : CalcPrices, advance_paid : CalcAdvances,
        advance_paid_date : CalcDates, now : CalcInstants]
  \cup [kind : {"status"}, days : CalcDays]
  \cup [kind : {"signed"}, student_count : CalcSignedStudentCounts,
        quoted_price : CalcSignedPrices, advance_paid : CalcSignedAdvances,
        advance_paid_date : {<<0>>}, now : {0, 72}]
  \cup [kind : {"dialog"}, form : CalcDialogForms]
  \cup [kind : {"addSchool"}, form : CalcAddSchoolForms, now : {0, 12}]
  \cup [kind : {"dashboard"}, entries : CalcDashboards, now : {0, 72}]

CalcInit ==
  /\ clock = 0
  /\ schools = {}
  /\ billing_info = <<>>
  /\ payment_logs = <<>>
  /\ action_logs = <<>>
  /\ nextId = 1
  /\ page = "closed"
  /\ hook = hookInitial
  /\ localState = localStateInitial
  /\ isSubmittingPayment = FALSE
  /\ nCalls = 0
  /\ nTicks = 0
  /\ call = Null
  /\ nDeletes = 0
  /\ del = Null
  /\ fetches = fetchesInitial
  /\ pending = Null
  /\ tabs = tabsInitial
  /\ arg \in {Some(a) : a \in CalcArgs}
  /\ res = Null

\* usePaymentProcessing.tsx:64-81 applied to arg.data; excessCharge exists
\* only inside the special-case branch
CalcEffectivePayment ==
  /\ res = Null
  /\ Val(arg).kind = "payment"
  /\ res' = Some([effectiveAmount |-> effectiveAmount(Val(arg).data),
                  excessCharge |->
                    IF isExcessAdjusted(Val(arg).data)
                    THEN Some(excessCharge(Val(arg).data)) ELSE Null])
  /\ UNCHANGED <<clock, storeVars, pageVars, nCalls, nTicks, call, arg,
                 delVars, tabs,
                 asyncVars>>

\* The validity computation of the hook (useSchoolData.tsx:115-144, from a
\* freshly mounted hook) and of processPayment (usePaymentProcessing.tsx:
\* 167-203), applied to the same school and billing row at instant arg.now
CalcValidity ==
  /\ res = Null
  /\ Val(arg).kind \in {"validity", "signed"}
  /\ LET a == Val(arg)
         billing == [id |-> 1, school_id |-> "s1",
                     quoted_price |-> a.quoted_price,
                     advance_paid |-> a.advance_paid,
                     advance_paid_date |-> a.advance_paid_date]
     IN res' = Some([fetch |->
                       IF a.advance_paid_date # Null
                       THEN fetchValidity(a.student_count, billing, a.now)
                       ELSE defaultValidity,
                     fetchDays |->
                       fetchDaysOfValidity(a.student_count, a.quoted_price,
                                           a.advance_paid),
                     process |->
                       processValidity(a.student_count, billing, a.now),
                     dashboard |->
                       dashboardValidity(a.student_count, billing, a.now),
                     processDays |->
                       processDaysOfValidity(a.student_count, a.quoted_price,
                                             a.advance_paid)])
  /\ UNCHANGED <<clock, storeVars, pageVars, nCalls, nTicks, call, arg,
                 delVars, tabs,
                 asyncVars>>

\* The three copies of the status classification applied to arg.days
CalcStatus ==
  /\ res = Null
  /\ Val(arg).kind = "status"
  /\ res' = Some([hook |-> hookStatus(Val(arg).days),
                  process |-> processStatus(Val(arg).days),
                  dashboard |-> dashboardStatus(Val(arg).days)])
  /\ UNCHANGED <<clock, storeVars, pageVars, nCalls, nTicks, call, arg,
                 delVars, tabs,
                 asyncVars>>

\* The payment dialog is submitted: what it previewed (PaymentDialog.tsx:
\* 84-87) and what processPayment makes of the values it passes on
\* (usePaymentProcessing.tsx:64-81, 133)
CalcDialog ==
  /\ res = Null
  /\ Val(arg).kind = "dialog"
  /\ LET form == Val(arg).form
         data == dialogSubmitValues(form)
     IN res' = Some([preview |-> dialogEffectiveAmount(form, form.ticked),
                     data |-> data,
                     credited |-> effectiveAmount(data),
                     is_special_case |->
                       newPaymentLog(2, [id |-> "s1"], 1, data, 0)
                         .is_special_case])
  /\ UNCHANGED <<clock, storeVars, pageVars, nCalls, nTicks, call, arg,
                 delVars, tabs, asyncVars>>

\* AddSchool.onSubmit (AddSchool.tsx:107-137) succeeds at instant arg.now
\* and the school-details hook then loads the new school at that instant
CalcAddSchool ==
  /\ res = Null
  /\ Val(arg).kind = "addSchool"
  /\ LET form == Val(arg).form
         now == Val(arg).now
         school == addSchoolSchoolRow("s1", form)
         billing == addSchoolBillingRow(1, "s1", form, now)
     IN res' = Some([preview |-> addSchoolPreview(form, now),
                     school |-> school,
                     billing |-> billing,
                     page |-> fetchValidity(school.student_count, billing,
                                            now)])
  /\ UNCHANGED <<clock, storeVars, pageVars, nCalls, nTicks, call, arg,
                 delVars, tabs, asyncVars>>

\* The Dashboard lists arg.entries at instant arg.now (part_011:364-416)
\* and totals what is outstanding (part_011:462-470); balances are the
\* remaining balances the school-details page shows for the same rows
CalcDashboard ==
  /\ res = Null
  /\ Val(arg).kind = "dashboard"
  /\ LET entries == Val(arg).entries
         rows == [i \in 1..Len(entries) |->
                    dashboardSchool(entries[i], Val(arg).now)]
     IN res' = Some([rows |-> rows,
                     totalOutstanding |-> totalOutstanding(rows),
                     balances |->
                       [i \in 1..Len(entries) |->
                          remainingBalance(entries[i].student_count,
                                           entries[i].billing)]])
  /\ UNCHANGED <<clock, storeVars, pageVars, nCalls, nTicks, call, arg,
                 delVars, tabs, asyncVars>>

CalcNext ==
  \/ CalcEffectivePayment
  \/ CalcValidity
  \/ CalcStatus
  \/ CalcDialog
  \/ CalcAddSchool
  \/ CalcDashboard

SpecCalc == CalcInit /\ [][CalcNext]_vars


\* ------------------------------------------------------------- claims

\* The effective amount as the specification states it: the amount less
\* excessStudentCount * (pricePerStudent / 365) * excessDays, not below 0,
\* when the payment is a special case with both excess values positive,
\* and the amount otherwise.
StatedExcessCharge(d) ==
  (d.excessStudentCount * d.pricePerStudent * d.excessDays) \div 365

StatedEffective(d) ==
  IF d.specialCase /\ d.excessStudentCount > 0 /\ d.excessDays > 0
  THEN IF d.amount - StatedExcessCharge(d) > 0
       THEN d.amount - StatedExcessCharge(d) ELSE 0
  ELSE d.amount

\* The most recent processPayment call returned a result (a successful
\* payment).
CallSucceeded == call # Null /\ Val(call).result # Null

\* The advance_paid the most recent call started from: that of the
\* BillingInfo it was given (null as 0), 0 when it was given none.
CallBase ==
  IF Val(call).billingInfo = Null THEN 0
  ELSE OrZero(Val(Val(call).billingInfo).advance_paid)

\* C1: a successful processPayment for a school that has a billing_info
\* row (which the page loaded) leaves that row's advance_paid at the value
\* stored before the call plus the payment's effective amount, so that a
\* sequence of payments adds the sum of their effective amounts, also when
\* the payments are made one after another from the same page.
C1_AdvanceAccumulates ==
  (CallSucceeded /\ Val(call).billingInfo # Null
   /\ Len(Val(call).before) = 1) =>
     /\ Len(Val(call).after) = 1
     /\ Val(call).after[1].advance_paid =
          Some(OrZero(Val(call).before[1].advance_paid)
               + StatedEffective(Val(call).data))

\* C2: at most one billing_info row exists for a school after any sequence
\* of processPayment calls.
C2_AtMostOneBillingRow ==
  \A id \in SchoolIds : Len(BillingOfSchool(billing_info, id)) <= 1

\* C3: for every payment processPayment recorded, the value it added to
\* advance_paid (to the advance_paid of the BillingInfo it was given, or to
\* nothing when it created the row) is the effective amount, and the amount
\* of the new payment_logs row is the raw amount entered.
C3_CreditsEffectiveLogsRaw ==
  (call # Null /\ Val(call).log # Null) =>
     /\ Val(Val(call).log).amount = Val(call).data.amount
     /\ Val(call).written # Null
     /\ Val(Val(call).written).advance_paid =
          Some(CallBase + StatedEffective(Val(call).data))

\* C3 witness: an updating payment was recorded whose effective amount
\* differs from its raw amount.
C3_Witness ==
  /\ call # Null
  /\ Val(call).log # Null
  /\ Val(call).billingInfo # Null
  /\ Val(call).effectiveAmount # Val(call).data.amount
  /\ Val(call).effectiveAmount > 0

\* C4: for a special-case payment with excessStudentCount > 0 and
\* excessDays > 0, excessCharge = excessStudentCount * (pricePerStudent /
\* 365) * excessDays and effectiveAmount = max(0, amount - excessCharge);
\* amount 10000, price 365, 5 excess students, 10 excess days give 50 and
\* 9950.
C4_ExcessChargeFormula ==
  (res # Null /\ Val(arg).kind = "payment") =>
    LET d == Val(arg).data
        r == Val(res)
    IN (d.specialCase /\ d.excessStudentCount > 0 /\ d.excessDays > 0) =>
         /\ r.excessCharge # Null
         /\ 365 * Val(r.excessCharge) =
              d.excessStudentCount * d.pricePerStudent * d.excessDays
         /\ r.effectiveAmount =
              IF d.amount >= Val(r.excessCharge)
              THEN d.amount - Val(r.excessCharge) ELSE 0
         /\ (d.amount = 10000 /\ d.pricePerStudent = 365
             /\ d.excessStudentCount = 5 /\ d.excessDays = 10) =>
               (Val(r.excessCharge) = 50 /\ r.effectiveAmount = 9950)

\* C4 witness: the effective payment of the specification's example was
\* computed.
C4_Witness ==
  /\ res # Null
  /\ Val(arg).kind = "payment"
  /\ Val(arg).data.specialCase
  /\ Val(arg).data.amount = 10000
  /\ Val(arg).data.pricePerStudent = 365
  /\ Val(arg).data.excessStudentCount = 5
  /\ Val(arg).data.excessDays = 10

\* C5: unless the payment is a special case with excessStudentCount > 0 and
\* excessDays > 0, the effective amount is the raw amount.
C5_PassthroughOtherwise ==
  (res # Null /\ Val(arg).kind = "payment") =>
    LET d == Val(arg).data
    IN ~(d.specialCase /\ d.excessStudentCount > 0 /\ d.excessDays > 0) =>
         /\ Val(res).effectiveAmount = d.amount
         /\ Val(res).excessCharge = Null

\* C5 witness: a payment that is not a special case, with both excess
\* values positive and a charge that would exceed nothing, was computed.
C5_Witness ==
  /\ res # Null
  /\ Val(arg).kind = "payment"
  /\ ~Val(arg).data.specialCase
  /\ Val(arg).data.excessStudentCount > 0
  /\ Val(arg).data.excessDays > 0

\* C6: the effective amount of a payment is never negative, also when the
\* excess charge exceeds the amount, so the advance_paid a recorded payment
\* writes is never below the value the payment started from.
C6_EffectiveNeverNegative ==
  call # Null =>
    /\ Val(call).effectiveAmount >= 0
    /\ Val(call).log # Null =>
         /\ Val(call).written # Null
         /\ OrZero(Val(Val(call).written).advance_paid) >= CallBase

\* C6 witness: a payment whose excess charge exceeds its amount was
\* recorded.
C6_Witness ==
  /\ call # Null
  /\ Val(call).log # Null
  /\ Val(call).data.specialCase
  /\ StatedExcessCharge(Val(call).data) > Val(call).data.amount

\* C7: processPayment called for a school with no BillingInfo creates a
\* billing_info row of that school whose quoted_price is the payment's
\* pricePerStudent, whose advance_paid is exactly the payment's effective
\* amount and whose advance_paid_date is today.
C7_FirstPaymentCreatesBilling ==
  (call # Null /\ Val(call).billingInfo = Null) =>
    LET c == Val(call)
    IN /\ c.written # Null
       /\ Len(c.after) = Len(c.before) + 1
       /\ c.after[Len(c.after)] = Val(c.written)
       /\ \A i \in 1..Len(c.before) : c.before[i].id # Val(c.written).id
       /\ Val(c.written).quoted_price = c.data.pricePerStudent
       /\ Val(c.written).advance_paid = Some(StatedEffective(c.data))
       /\ Val(c.written).advance_paid_date = Some(c.now \div 24)

\* C7 witness: a first payment on a school without a billing_info row, on
\* a later day than day 0, with an effective amount below its raw amount.
C7_Witness ==
  /\ call # Null
  /\ Val(call).billingInfo = Null
  /\ Val(call).before = <<>>
  /\ Val(call).now >= 24
  /\ Val(call).effectiveAmount # Val(call).data.amount

\* C8: a payment that is not a special case leaves the quoted_price of the
\* school's billing_info row at the value stored immediately before it.
C8_NonSpecialKeepsPrice ==
  (CallSucceeded /\ ~Val(call).data.specialCase
   /\ Len(Val(call).before) = 1) =>
     \E i \in 1..Len(Val(call).after) :
        /\ Val(call).after[i].id = Val(call).before[1].id
        /\ Val(call).after[i].quoted_price = Val(call).before[1].quoted_price

\* C9: daysOfValidity = floor(advancePaid / (studentCount * quotedPrice /
\* 365)) when studentCount * quotedPrice > 0 and 0 otherwise, and
\* validUntilDate = advancePaidDate + daysOfValidity days, in the hook and
\* in processPayment; 100 students, price 365, advance 3650 give 36 days.
C9_DaysOfValidity ==
  (res # Null /\ Val(arg).kind = "validity") =>
    LET a == Val(arg)
        r == Val(res)
        total == OrZero(a.student_count) * a.quoted_price
        expected == IF total > 0
                    THEN (365 * OrZero(a.advance_paid)) \div total ELSE 0
    IN /\ r.fetchDays = expected
       /\ r.processDays = expected
       /\ a.advance_paid_date # Null =>
            /\ r.fetch.validUntil =
                 Some((Val(a.advance_paid_date) + expected) * 24)
            /\ r.process.validUntil =
                 Some((Val(a.advance_paid_date) + expected) * 24)
       /\ (a.student_count = <<100>> /\ a.quoted_price = 365
           /\ a.advance_paid = <<3650>>) => r.fetchDays = 36

\* C9 witness: the validity of the specification's example was computed
\* for a dated billing row.
C9_Witness ==
  /\ res # Null
  /\ Val(arg).kind = "validity"
  /\ Val(arg).student_count = <<100>>
  /\ Val(arg).quoted_price = 365
  /\ Val(arg).advance_paid = <<3650>>
  /\ Val(arg).advance_paid_date # Null
  /\ Val(res).fetch.validUntil # Null

\* C10: the status is 'paid' iff daysRemaining > 30, 'overdue' iff 10 <
\* daysRemaining <= 30 and 'critical' iff daysRemaining <= 10, in the hook,
\* in processPayment and in the Dashboard alike.
C10_StatusThresholds ==
  (res # Null /\ Val(arg).kind = "status") =>
    LET d == Val(arg).days
        stated == IF d > 30 THEN "paid"
                  ELSE IF d > 10 THEN "overdue" ELSE "critical"
    IN /\ Val(res).hook = stated
       /\ Val(res).process = stated
       /\ Val(res).dashboard = stated
       /\ (d = 31 => stated = "paid")
       /\ (d = 30 => stated = "overdue")
       /\ (d = 11 => stated = "overdue")
       /\ (d = 10 => stated = "critical")

\* C10 witness: the boundary value 30 was classified.
C10_Witness ==
  /\ res # Null
  /\ Val(arg).kind = "status"
  /\ Val(arg).days = 30
  /\ Val(res).dashboard = "overdue"

\* The validity as the specification states it, for a billing row, a
\* student count and the instant now: none without an advance_paid_date;
\* otherwise advance_paid_date plus floor(365 * advance_paid / (student
\* count * quoted_price)) days (0 days when the fees are not positive), the
\* days left rounded up, and the status by the thresholds 30 and 10.
StatedValidity(student_count, row, now) ==
  IF row.advance_paid_date = Null
  THEN [daysRemaining |-> 0, validUntil |-> Null, paymentStatus |-> "critical"]
  ELSE
    LET fees == OrZero(student_count) * row.quoted_price
        bought == IF fees > 0
                  THEN (DaysInYear * OrZero(row.advance_paid)) \div fees
                  ELSE 0
        until == (Val(row.advance_paid_date) + bought) * HoursPerDay
        left == Ceil(until - now, HoursPerDay)
    IN [daysRemaining |-> left,
        validUntil |-> Some(until),
        paymentStatus |-> IF left > 30 THEN "paid"
                          ELSE IF left > 10 THEN "overdue" ELSE "critical"]

\* C11: whenever the school the hook has loaded has no billing_info row, or
\* its row has no advance_paid_date, the hook reports daysRemaining = 0,
\* paymentStatus = 'critical' and validUntil = null, after any sequence of
\* loads in the same hook instance.
C11_NoPaymentDefaults ==
  (hook.school # Null /\ hook.error = Null /\ ~hook.loading) =>
    LET rows == BillingOfSchool(billing_info, Val(hook.school).id)
        undated == IF Len(rows) = 0 THEN TRUE
                   ELSE Len(rows) = 1 /\ rows[1].advance_paid_date = Null
    IN undated =>
         /\ hook.daysRemaining = 0
         /\ hook.paymentStatus = "critical"
         /\ hook.validUntil = Null

\* C12: the validity processPayment returns is the stated validity of the
\* billing row as stored after this payment's write, with the school's
\* student count, at the instant of the call.
C12_ReturnsPostPaymentValidity ==
  CallSucceeded =>
    \A s \in schools :
      LET r == Val(Val(call).result)
          row == Val(Val(call).written)
          stated == StatedValidity(s.student_count, row, Val(call).now)
      IN /\ Val(call).written # Null
         /\ r.billingInfo = Val(call).written
         /\ r.daysRemaining = stated.daysRemaining
         /\ r.paymentStatus = stated.paymentStatus
         /\ r.validUntil = stated.validUntil

\* C12 witness: a payment was recorded on an existing billing row and the
\* validity returned has days left.
C12_Witness ==
  /\ CallSucceeded
  /\ schools # {}
  /\ Val(call).billingInfo # Null
  /\ Val(Val(call).result).validUntil # Null
  /\ Val(Val(Val(call).result).validUntil) > Val(call).now
  /\ Val(Val(call).result).daysRemaining > 0

\* C13: every payment_logs row has exactly one action_logs row of type
\* payment_added naming it, and no payment_logs row has none.
C13_OneLogOneAction ==
  \A i \in 1..Len(payment_logs) :
    Cardinality({j \in 1..Len(action_logs) :
                   /\ action_logs[j].action_type = "payment_added"
                   /\ action_logs[j].related_record_id
                        = Some(payment_logs[i].id)}) = 1

\* C14: after handleDeleteSchool has removed a school row, no billing_info
\* row and no payment_logs row of that school remains.
C14_DeletionLeavesNoRecords ==
  (del # Null /\ Val(del).deleted) =>
    /\ SchoolById(Val(del).id) = {}
    /\ Len(BillingOfSchool(billing_info, Val(del).id)) = 0
    /\ Len(LogsOfSchool(payment_logs, Val(del).id)) = 0

\* C14 witness: a school was removed in the page session in which a
\* payment for it had been recorded.
C14_Witness ==
  /\ del # Null
  /\ Val(del).deleted
  /\ Val(del).hadLogs
  /\ Val(del).sessionPaid

\* C15: whenever handleDeleteSchool has removed a school row, the
\* action_logs entry of type school_deleted of that call has been written.
C15_DeletionIsLogged ==
  (del # Null /\ Val(del).deleted) =>
    /\ Val(del).logged
    /\ \E j \in 1..Len(action_logs) :
         /\ action_logs[j].action_type = "school_deleted"
         /\ Some(action_logs[j].id) = Val(del).logId

\* C16: once a school has a billing_info row, no step leaves the school row
\* in existence without one.
C16_BillingNeverLost ==
  [][\A s \in schools :
       (Len(BillingOfSchool(billing_info, s.id)) > 0 /\ s \in schools')
         => Len(BillingOfSchool(billing_info', s.id)) > 0]_vars

\* C17: a step that is not a handleDeleteSchool call leaves every existing
\* payment_logs row in place and unchanged, and adds at most one row.
C17_PaymentLogsAppendOnly ==
  [][nDeletes' = nDeletes =>
       /\ Len(payment_logs') >= Len(payment_logs)
       /\ Len(payment_logs') <= Len(payment_logs) + 1
       /\ \A i \in 1..Len(payment_logs) : payment_logs'[i] = payment_logs[i]]_vars

\* C17 witness: a second payment was recorded after a first one, whose
\* payment_logs row is still there.
C17_Witness ==
  /\ nDeletes = 0
  /\ Len(payment_logs) = 2
  /\ CallSucceeded
  /\ Val(call).log = Some(payment_logs[2])
  /\ payment_logs[1].id < payment_logs[2].id

\* C18: no step deletes an action_logs entry or changes one of its fields.
C18_ActionLogsAppendOnly ==
  [][/\ Len(action_logs') >= Len(action_logs)
     /\ \A i \in 1..Len(action_logs) : action_logs'[i] = action_logs[i]]_vars

\* The tabs in the order of their billing writes.
RaceFirst == CHOOSE t \in Tabs : tabs[t].order = 1
RaceLast == CHOOSE t \in Tabs : tabs[t].order = 2

\* Both tabs were given a BillingInfo, read it before either wrote, and
\* both calls have run to their end.
RaceDone ==
  \A t \in Tabs :
    /\ tabs[t].pc = "done"
    /\ tabs[t].order > 0
    /\ tabs[t].seen = 0
    /\ tabs[t].hook.billingInfo # Null

\* C19: when two processPayment calls for a school with a BillingInfo have
\* both read advance_paid before either wrote, the advance_paid stored at
\* the end is what was read plus the effective amount of the later write
\* alone; the earlier effective amount is not in it.
C19_LostUpdate ==
  RaceDone =>
    LET base == OrZero(Val(tabs[RaceLast].hook.billingInfo).advance_paid)
        first == StatedEffective(Val(tabs[RaceFirst].data))
        last == StatedEffective(Val(tabs[RaceLast].data))
        rows == BillingOfSchool(billing_info, "s1")
    IN /\ Len(rows) = 1
       /\ rows[1].advance_paid = Some(base + last)
       /\ first > 0 => rows[1].advance_paid # Some(base + first + last)

\* C19 witness: both calls ended and both effective amounts were positive.
C19_Witness ==
  /\ RaceDone
  /\ StatedEffective(Val(tabs[RaceFirst].data)) > 0
  /\ StatedEffective(Val(tabs[RaceLast].data)) > 0
  /\ tabs[RaceFirst].result # Null
  /\ tabs[RaceLast].result # Null

\* C20: wherever the hook, processPayment or the Dashboard computes a
\* valid-until date, daysRemaining is ceil((validUntil - today) / 1 day),
\* and it is negative when validUntil lies a full day or more before today.
C20_DaysRemainingUnclamped ==
  (res # Null /\ Val(arg).kind = "validity") =>
    \A v \in {Val(res).fetch, Val(res).process, Val(res).dashboard} :
      v.validUntil # Null =>
        LET diff == Val(v.validUntil) - Val(arg).now
        IN /\ v.daysRemaining * HoursPerDay >= diff
           /\ (v.daysRemaining - 1) * HoursPerDay < diff
           /\ (diff <= -HoursPerDay => v.daysRemaining < 0)

\* C20 witness: the three computations each reported a negative
\* daysRemaining.
C20_Witness ==
  /\ res # Null
  /\ Val(arg).kind = "validity"
  /\ Val(res).fetch.daysRemaining < 0
  /\ Val(res).process.daysRemaining < 0
  /\ Val(res).dashboard.daysRemaining < 0

\* The outcome the specification requires for an argument below zero.
InvalidArgument == [error |-> "InvalidArgument"]

\* C21: a validity computation given a negative student count, quoted
\* price or advance paid ends with an InvalidArgument error, in the hook,
\* in processPayment and in the Dashboard.
C21_NegativeRejected ==
  (res # Null /\ Val(arg).kind = "signed"
   /\ (\/ Val(Val(arg).student_count) < 0
       \/ Val(arg).quoted_price < 0
       \/ Val(Val(arg).advance_paid) < 0)) =>
    /\ Val(res).fetch = InvalidArgument
    /\ Val(res).process = InvalidArgument
    /\ Val(res).dashboard = InvalidArgument

\* C22: for a payment submitted from the dialog with the special-case box
\* ticked and both excess values positive, processPayment credits the
\* 'Effective Payment' the dialog previewed and flags the payment_logs row
\* is_special_case.
C22_DialogPreviewIsCredited ==
  (res # Null /\ Val(arg).kind = "dialog"
   /\ Val(arg).form.ticked
   /\ Val(arg).form.excessStudentCount > 0
   /\ Val(arg).form.excessDays > 0) =>
    /\ Val(res).credited = Val(res).preview
    /\ Val(res).is_special_case

\* C25: for the same school row, billing_info row and instant, the
\* Dashboard and the school-details hook compute the same daysRemaining,
\* valid-until date and status whenever the row has an advance_paid_date.
C25_DashboardAgreesWithHook ==
  (res # Null /\ Val(arg).kind = "validity"
   /\ Val(arg).advance_paid_date # Null) =>
    /\ Val(res).dashboard.daysRemaining = Val(res).fetch.daysRemaining
    /\ Val(res).dashboard.validUntil = Val(res).fetch.validUntil
    /\ Val(res).dashboard.paymentStatus = Val(res).fetch.paymentStatus

\* C26: after AddSchool.onSubmit succeeded, the valid-until date the
\* school-details page computes for the new school on the same day is the
\* 'Valid Until' date the form previewed.
C26_AddSchoolPreviewIsKept ==
  (res # Null /\ Val(arg).kind = "addSchool"
   /\ Val(res).preview # Null) =>
    /\ Val(res).page.validUntil # Null
    /\ DateString(Val(Val(res).page.validUntil)) = Val(Val(res).preview)

\* The sum of balances[i] over the listed schools whose status is overdue
\* or critical.
RECURSIVE StatedOutstanding(_, _, _)
StatedOutstanding(rows, balances, n) ==
  IF n = 0 THEN 0
  ELSE StatedOutstanding(rows, balances, n - 1)
       + (IF rows[n].paymentStatus \in {"overdue", "critical"}
          THEN balances[n] ELSE 0)

\* C27: the Dashboard's Total Outstanding is never negative and is the sum,
\* over the schools whose status is overdue or critical, of the remaining
\* balance the school-details page shows for the school.
C27_OutstandingIsClampedSum ==
  (res # Null /\ Val(arg).kind = "dashboard") =>
    /\ Val(res).totalOutstanding >= 0
    /\ Val(res).totalOutstanding
         = StatedOutstanding(Val(res).rows, Val(res).balances,
                             Len(Val(res).rows))

\* C23: when processPayment returned null, the school's billing_info rows
\* are as they were before the call and no payment_logs row was added.
C23_FailedPaymentChangesNothing ==
  (call # Null /\ Val(call).result = Null) =>
    /\ Val(call).after = Val(call).before
    /\ Val(call).log = Null

\* C24: the payments list processPayment returns is the list shown before
\* the call with the new payment appended as its last element.
C24_HistoryKeepsEveryPayment ==
  CallSucceeded =>
    LET r == Val(Val(call).result)
        shown == Val(call).shown
    IN /\ Len(r.payments) = Len(shown) + 1
       /\ SubSeq(r.payments, 1, Len(shown)) = shown
       /\ r.payments[Len(r.payments)].id = Val(Val(call).log).id

\* C29: no school whose row exists has an action_logs entry of type
\* school_deleted.
C29_NoDeletedEntryForLivingSchool ==
  \A s \in schools :
    \A j \in 1..Len(action_logs) :
      action_logs[j].action_type = "school_deleted"
        => action_logs[j].school_id # Some(s.id)

\* C28: once no fetch is in flight, the hook holds the school, the billing
\* info and the payments of the id it was given last.
C28_LatestIdWins ==
  (fetches.id # Null /\ fetches.inflight = {}) =>
    LET id == Val(fetches.id)
        latest == fetchSchoolData(hookInitial, id, clock, "none")
    IN /\ hook.school = latest.school
       /\ hook.billingInfo = latest.billingInfo
       /\ hook.payments = latest.payments

\* C30: isSubmittingPayment is true exactly while a processPayment call is
\* in progress, and whenever it is true it becomes false again.
C30_SubmittingIsReset ==
  /\ [](isSubmittingPayment <=> pending # Null)
  /\ (isSubmittingPayment ~> ~isSubmittingPayment)

\* C30 witness: a call that returned null has ended and the form is enabled
\* again.
C30_Witness ==
  /\ call # Null
  /\ Val(call).result = Null
  /\ pending = Null
  /\ ~isSubmittingPayment

====
